---- MODULE Spec2Model ----
(***************************************************************************)
(* Model of the tunnel control server (src/Server.js): the single tunnel   *)
(* slot (tunnelProcess, connectedEnv, tunnelLocalPort), the /connect and   *)
(* /disconnect handlers with the callbacks they register (login, status,   *)
(* port probes, subprocess error / stderr / close, confirmation timer,     *)
(* logout), and the snapshots handed to broadcastStatus.                   *)
(*                                                                         *)
(* Node runs one handler at a time, so each action is one whole handler.   *)
(* A connect request is identified by its attempt number; the subprocess   *)
(* an attempt spawns carries the same number.                              *)
(***************************************************************************)
EXTENDS Integers, Sequences, FiniteSets, TLC

\* ---------------------------------------------------------------- bounds
MaxAttempts == 2      \* /connect requests issued in a run
MaxDisconnects == 2   \* /disconnect requests issued in a run
ScanLen == 2          \* length of the probed port range (51 in the source)
MaxClients == 2       \* /events subscriptions opened in a run
MaxTokens == 4        \* pieces joined into a query text

Attempts == 1..MaxAttempts
Disconnects == 1..MaxDisconnects
Clients == 1..MaxClients

\* ------------------------------------------------------------- constants
Null == 0             \* JavaScript null for the process handle and the port
NullEnv == "null"     \* JavaScript null for connectedEnv

\* envTunnel: the recognized profiles and their defaultLocalPort
envTunnel == [sit |-> 4085, uat1 |-> 4023, uat2 |-> 4022]
Envs == DOMAIN envTunnel

\* request bodies tried: two recognized profiles, an unknown one, a missing one
MissingEnv == ""
EnvInputs == {"sit", "uat2", "prod", MissingEnv}

\* `!env || !envTunnel[env]`
InvalidEnv(env) == env = MissingEnv \/ env \notin Envs

\* the failure bodies of the subprocess handlers: the 'error' handler's
\* "Failed to spawn SSH tunnel process." and the stderr handler's
\* "Failed to establish SSH tunnel: ..."
LaunchFailures == {"TunnelSpawnFailed", "TunnelLaunchFailed"}

VARIABLES
    tunnelProcess,    \* Null or the number of the subprocess held in the slot
    connectedEnv,     \* NullEnv or a profile name
    tunnelLocalPort,  \* Null or a port
    req,              \* per connect attempt: position, body, scan, response
    proc,             \* per subprocess: "none","failed","errored","alive","killed","closed"
    timers,           \* pending confirmation timers, in the order they were set
    disc,             \* per disconnect request: position and response
    emitted,          \* snapshots broadcast by the handler that ran last
    lastBroadcast,    \* the snapshot broadcast last, NoSnapshot before the first
    crashed,          \* an event handler threw: the Node process is gone
    sseClients,       \* the subscribed /events responses, in insertion order
    chan,             \* per /events response: "idle","open","broken","closed"
    delivered,        \* per /events response: what the handler that ran last wrote to it
    sql               \* the /execute-sql request: position, inputs, effects, response

vars == <<tunnelProcess, connectedEnv, tunnelLocalPort, req, proc, timers,
          disc, emitted, lastBroadcast, crashed, sseClients, chan, delivered, sql>>

slot == <<tunnelProcess, connectedEnv, tunnelLocalPort>>

NoSnapshot == [status |-> "none", env |-> NullEnv, pid |-> Null, localPort |-> Null]

\* tunnelProcess?.pid : a subprocess that failed to spawn has no pid
Pid(tp, pr) == IF tp = Null \/ pr[tp] \in {"failed", "errored"} THEN Null ELSE tp

\* getCurrentStatus(), as a function of the three globals
Status(tp, env, port, pr) ==
    [status |-> IF tp # Null THEN "connected" ELSE "disconnected",
     env |-> env,
     pid |-> Pid(tp, pr),
     localPort |-> port]

getCurrentStatus == Status(tunnelProcess, connectedEnv, tunnelLocalPort, proc)

\* res.headersSent of a connect attempt
headersSent(a) == req[a].nresp > 0

\* res.status(..).json(..) : the first body sent is the response
Respond(r, body) ==
    [r EXCEPT !.resp = IF r.nresp = 0 THEN body ELSE @, !.nresp = @ + 1]

\* ChildProcess.kill(): signals a running subprocess, nothing otherwise
Kill(pr, p) == IF pr[p] = "alive" THEN [pr EXCEPT ![p] = "killed"] ELSE pr

\* a spawn failure emits 'error' on the next tick, before any other callback
TickPending == \E p \in Attempts : proc[p] = "failed"

Ready == ~crashed /\ ~TickPending

IdleReq == [pc |-> "idle", env |-> MissingEnv, idx |-> 0, chosenPort |-> Null,
            resp |-> "none", nresp |-> 0]
IdleDisc == [pc |-> "idle", logoutError |-> FALSE, resp |-> "none", nresp |-> 0]
\* a request body without a query
NoQuery == [kind |-> "undefined", text |-> <<>>]
IdleSql == [pc |-> "idle", query |-> NoQuery, safe |-> "unchecked",
            host |-> <<>>, port |-> Null, user |-> "",
            probe |-> "none", probes |-> 0, conns |-> 0, resp |-> "none"]

Init ==
    /\ tunnelProcess = Null
    /\ connectedEnv = NullEnv
    /\ tunnelLocalPort = Null
    /\ req = [a \in Attempts |-> IdleReq]
    /\ proc = [a \in Attempts |-> "none"]
    /\ timers = <<>>
    /\ disc = [d \in Disconnects |-> IdleDisc]
    /\ emitted = <<>>
    /\ lastBroadcast = NoSnapshot
    /\ crashed = FALSE
    /\ sseClients = <<>>
    /\ chan = [c \in Clients |-> "idle"]
    /\ delivered = [c \in Clients |-> <<>>]
    /\ sql = IdleSql

\* sseClients.has(res)
Subscribed(c) == \E i \in 1..Len(sseClients) : sseClients[i] = c

\* res.write(..) throws on a broken response and delivers on an open one
WriteThrows(c) == chan[c] = "broken"

\* broadcastStatus() deleting from sseClients the responses whose write threw
Broadcast_DropsFailed(snaps) ==
    /\ emitted' = snaps
    /\ lastBroadcast' = IF snaps = <<>> THEN lastBroadcast ELSE snaps[Len(snaps)]
    /\ delivered' = [c \in Clients |->
           IF Subscribed(c) /\ ~WriteThrows(c) THEN snaps ELSE <<>>]
    /\ sseClients' = IF snaps = <<>> THEN sseClients
                     ELSE SelectSeq(sseClients, LAMBDA c : ~WriteThrows(c))
    /\ UNCHANGED chan

\* position of a subscribed response in the iteration order of sseClients
Position(c) == CHOOSE i \in 1..Len(sseClients) : sseClients[i] = c

\* broadcastStatus() without the try/catch around res.write: the first
\* throwing write ends the loop, the responses after it get nothing
Broadcast_AbortsOnThrow(snaps) ==
    /\ emitted' = snaps
    /\ lastBroadcast' = IF snaps = <<>> THEN lastBroadcast ELSE snaps[Len(snaps)]
    /\ delivered' = [c \in Clients |->
           IF Subscribed(c) /\ \A i \in 1..Position(c) : ~WriteThrows(sseClients[i])
           THEN snaps ELSE <<>>]
    /\ UNCHANGED <<sseClients, chan>>

\* broadcastStatus() called with the given snapshots, in order: each is
\* written to every response of sseClients, a throwing write being caught
\* inside the loop; the set itself is left as it is
Broadcast(snaps) ==
    /\ emitted' = snaps
    /\ lastBroadcast' = IF snaps = <<>> THEN lastBroadcast ELSE snaps[Len(snaps)]
    /\ delivered' = [c \in Clients |->
           IF Subscribed(c) /\ ~WriteThrows(c) THEN snaps ELSE <<>>]
    /\ UNCHANGED <<sseClients, chan>>

\* ------------------------------------------------------------- /connect
\* app.post('/connect'): teardown of the held tunnel, then validation of env
Connect(a, env) ==
    /\ Ready
    /\ req[a].pc = "idle"
    /\ \A b \in Attempts : b < a => req[b].pc # "idle"
    /\ LET held == tunnelProcess # Null
           bad == InvalidEnv(env)
       IN /\ proc' = IF held THEN Kill(proc, tunnelProcess) ELSE proc
          /\ tunnelProcess' = Null
          /\ connectedEnv' = IF held THEN NullEnv ELSE connectedEnv
          /\ tunnelLocalPort' = IF held THEN Null ELSE tunnelLocalPort
          /\ Broadcast(IF held THEN <<Status(Null, NullEnv, Null, proc')>> ELSE <<>>)
          /\ req' = [req EXCEPT ![a] =
                 IF bad
                 THEN Respond([@ EXCEPT !.pc = "done"], "InvalidEnvironment")
                 ELSE [@ EXCEPT !.pc = "login", !.env = env]]
    /\ UNCHANGED <<timers, disc, crashed, sql>>

\* callback of exec(loginCommand)
LoginCallback(a, ok) ==
    /\ Ready
    /\ req[a].pc = "login"
    /\ req' = [req EXCEPT ![a] =
           IF ok THEN [@ EXCEPT !.pc = "status"]
           ELSE Respond([@ EXCEPT !.pc = "done"], "AuthenticationFailed")]
    /\ Broadcast(<<>>)
    /\ UNCHANGED <<tunnelProcess, connectedEnv, tunnelLocalPort, proc, timers, disc, crashed, sql>>

\* callback of exec(statusCommand); on success the port scan starts and the
\* first probe isPortFree(range[0]) is in flight
StatusCallback(a, ok) ==
    /\ Ready
    /\ req[a].pc = "status"
    /\ req' = [req EXCEPT ![a] =
           IF ok THEN [@ EXCEPT !.pc = "scan", !.idx = 0]
           ELSE Respond([@ EXCEPT !.pc = "done"], "StatusQueryFailed")]
    /\ Broadcast(<<>>)
    /\ UNCHANGED <<tunnelProcess, connectedEnv, tunnelLocalPort, proc, timers, disc, crashed, sql>>

\* range[i] of Array.from({length: 51}, (_, i) => defaultLocalPort + i)
RangePort(env, i) == envTunnel[env] + i

\* the rest of the async block once the scan is over: publish the port,
\* broadcast, spawn, register the handlers, set the confirmation timer
Launch(a, chosenPort, spawned) ==
    /\ tunnelLocalPort' = chosenPort
    /\ Broadcast(<<Status(tunnelProcess, connectedEnv, chosenPort, proc)>>)
    /\ tunnelProcess' = a
    /\ proc' = [proc EXCEPT ![a] = IF spawned THEN "alive" ELSE "failed"]
    /\ timers' = Append(timers, a)
    /\ req' = [req EXCEPT ![a] = [@ EXCEPT !.pc = "launched", !.chosenPort = chosenPort]]
    /\ UNCHANGED <<connectedEnv, disc, crashed, sql>>

\* resumption of `await isPortFree(p)` with the prober's answer
ProbeResult(a, free, spawned) ==
    /\ Ready
    /\ req[a].pc = "scan"
    /\ LET i == req[a].idx
           env == req[a].env
       IN IF free
          THEN Launch(a, RangePort(env, i), spawned)
          ELSE IF i + 1 < ScanLen
               THEN /\ req' = [req EXCEPT ![a].idx = i + 1]
                    /\ Broadcast(<<>>)
                    /\ UNCHANGED <<tunnelProcess, connectedEnv, tunnelLocalPort,
                                   proc, timers, disc, crashed, sql>>
               ELSE Launch(a, envTunnel[env], spawned)

\* tunnelProcess.on('error')
ErrorEvent(p) ==
    /\ ~crashed
    /\ proc[p] = "failed"
    /\ proc' = [proc EXCEPT ![p] = "errored"]
    /\ req' = [req EXCEPT ![p] =
           IF headersSent(p) THEN @ ELSE Respond(@, "TunnelSpawnFailed")]
    /\ tunnelProcess' = Null
    /\ connectedEnv' = NullEnv
    /\ tunnelLocalPort' = Null
    /\ Broadcast(<<Status(Null, NullEnv, Null, proc')>>)
    /\ UNCHANGED <<timers, disc, crashed, sql>>

\* the stderr handler tearing the slot down on any output, answered or not
StderrData_AlwaysTearsDown(p) ==
    /\ Ready
    /\ proc[p] \in {"alive", "killed"}
    /\ IF tunnelProcess = Null
       THEN /\ crashed' = TRUE
            /\ Broadcast(<<>>)
            /\ UNCHANGED <<tunnelProcess, connectedEnv, tunnelLocalPort, req,
                           proc, timers, disc, sql>>
       ELSE /\ proc' = Kill(proc, tunnelProcess)
            /\ tunnelProcess' = Null
            /\ connectedEnv' = NullEnv
            /\ tunnelLocalPort' = Null
            /\ req' = [req EXCEPT ![p] =
                   IF headersSent(p) THEN @ ELSE Respond(@, "TunnelLaunchFailed")]
            /\ Broadcast(<<Status(Null, NullEnv, Null, proc')>>)
            /\ UNCHANGED <<timers, disc, crashed, sql>>

\* tunnelProcess.stderr.on('data')
StderrData(p) ==
    /\ Ready
    /\ proc[p] \in {"alive", "killed"}
    /\ IF headersSent(p)
       THEN /\ Broadcast(<<getCurrentStatus>>)
            /\ UNCHANGED <<tunnelProcess, connectedEnv, tunnelLocalPort, req, proc,
                           timers, disc, crashed, sql>>
       ELSE IF tunnelProcess = Null
            THEN \* tunnelProcess.kill() on null throws a TypeError
                 /\ crashed' = TRUE
                 /\ Broadcast(<<>>)
                 /\ UNCHANGED <<tunnelProcess, connectedEnv, tunnelLocalPort, req,
                                proc, timers, disc, sql>>
            ELSE /\ proc' = Kill(proc, tunnelProcess)
                 /\ tunnelProcess' = Null
                 /\ connectedEnv' = NullEnv
                 /\ tunnelLocalPort' = Null
                 /\ req' = [req EXCEPT ![p] = Respond(@, "TunnelLaunchFailed")]
                 /\ Broadcast(<<Status(Null, NullEnv, Null, proc')>>)
                 /\ UNCHANGED <<timers, disc, crashed, sql>>

\* the 'close' handler clearing the slot the way /disconnect does, without
\* tunnelLocalPort = null
CloseEvent_KeepsPort(p) ==
    /\ Ready
    /\ proc[p] \in {"alive", "killed", "errored"}
    /\ proc' = [proc EXCEPT ![p] = "closed"]
    /\ tunnelProcess' = Null
    /\ connectedEnv' = NullEnv
    /\ Broadcast(<<Status(Null, NullEnv, tunnelLocalPort, proc')>>)
    /\ UNCHANGED <<tunnelLocalPort, req, timers, disc, crashed, sql>>

\* tunnelProcess.on('close')
CloseEvent(p) ==
    /\ Ready
    /\ proc[p] \in {"alive", "killed", "errored"}
    /\ proc' = [proc EXCEPT ![p] = "closed"]
    /\ tunnelProcess' = Null
    /\ connectedEnv' = NullEnv
    /\ tunnelLocalPort' = Null
    /\ Broadcast(<<Status(Null, NullEnv, Null, proc')>>)
    /\ UNCHANGED <<req, timers, disc, crashed, sql>>

\* the setTimeout(.., 2000) callback; equal delays fire in the order set
TimerFire ==
    /\ Ready
    /\ timers # <<>>
    /\ LET a == Head(timers)
       IN /\ timers' = Tail(timers)
          /\ IF headersSent(a)
             THEN /\ Broadcast(<<>>)
                  /\ UNCHANGED <<connectedEnv, req>>
             ELSE /\ connectedEnv' = req[a].env
                  /\ Broadcast(<<Status(tunnelProcess, req[a].env, tunnelLocalPort, proc)>>)
                  /\ req' = [req EXCEPT ![a] = Respond(@, "Success")]
    /\ UNCHANGED <<tunnelProcess, tunnelLocalPort, proc, disc, crashed, sql>>

\* ---------------------------------------------------------- /disconnect
\* app.post('/disconnect'): local teardown, then exec(logoutCommand)
Disconnect(d) ==
    /\ Ready
    /\ disc[d].pc = "idle"
    /\ \A e \in Disconnects : e < d => disc[e].pc # "idle"
    /\ LET held == tunnelProcess # Null
       IN /\ proc' = IF held THEN Kill(proc, tunnelProcess) ELSE proc
          /\ tunnelProcess' = Null
          /\ connectedEnv' = IF held THEN NullEnv ELSE connectedEnv
          /\ Broadcast(IF held THEN <<Status(Null, NullEnv, tunnelLocalPort, proc')>>
                               ELSE <<>>)
    /\ disc' = [disc EXCEPT ![d].pc = "logout"]
    /\ UNCHANGED <<tunnelLocalPort, req, timers, crashed, sql>>

\* the logout callback returning a failure response when logout fails, as
\* the login and status callbacks do
LogoutCallback_ReportsFailure(d, ok) ==
    /\ Ready
    /\ disc[d].pc = "logout"
    /\ disc' = [disc EXCEPT ![d] =
           Respond([@ EXCEPT !.pc = "done", !.logoutError = ~ok],
                   IF ok THEN "Success" ELSE "LogoutFailed")]
    /\ Broadcast(IF ok THEN <<getCurrentStatus>> ELSE <<>>)
    /\ UNCHANGED <<tunnelProcess, connectedEnv, tunnelLocalPort, req, proc, timers, crashed, sql>>

\* callback of exec(logoutCommand)
LogoutCallback(d, ok) ==
    /\ Ready
    /\ disc[d].pc = "logout"
    /\ disc' = [disc EXCEPT ![d] =
           Respond([@ EXCEPT !.pc = "done", !.logoutError = ~ok], "Success")]
    /\ Broadcast(<<getCurrentStatus>>)
    /\ UNCHANGED <<tunnelProcess, connectedEnv, tunnelLocalPort, req, proc, timers, crashed, sql>>

\* ---------------------------------------------------- isSafeSelectQuery
\* A query string is a sequence of characters (one-character strings).
Whitespace == {" ", "\n", "\r", "\t"}
Letters == {"a", "c", "d", "e", "f", "l", "m", "o", "p", "r", "s", "t", "x"}
Upper == [a |-> "A", c |-> "C", d |-> "D", e |-> "E", f |-> "F", l |-> "L",
          m |-> "M", o |-> "O", p |-> "P", r |-> "R", s |-> "S", t |-> "T",
          x |-> "X"]

\* the regular expressions' \w: letters, digits and the underscore
IsWordChar(ch) ==
    \/ ch \in Letters
    \/ \E l \in Letters : ch = Upper[l]
    \/ ch \in {"0", "1", "_"}

\* the /i flag: a character compared in lower case
LowerChar(ch) == IF \E l \in Letters : ch = Upper[l]
                 THEN CHOOSE l \in Letters : ch = Upper[l]
                 ELSE ch

LowerText(t) == [i \in 1..Len(t) |-> LowerChar(t[i])]

\* t has the two characters c1 c2 at position i
PairAt(t, i, c1, c2) == i >= 1 /\ i + 1 <= Len(t) /\ t[i] = c1 /\ t[i + 1] = c2

\* query.replace(/\/\*[\s\S]*?\*\//g, ''): the leftmost "/*" that is closed
\* is removed up to its nearest "*/", and the scan goes on after it
RECURSIVE StripBlockComments(_)
StripBlockComments(t) ==
    LET closes(i) == {j \in (i + 2)..Len(t) : PairAt(t, j, "*", "/")}
        opens == {i \in 1..Len(t) : PairAt(t, i, "/", "*") /\ closes(i) # {}}
    IN IF opens = {} THEN t
       ELSE LET i == CHOOSE k \in opens : \A m \in opens : k <= m
                j == CHOOSE k \in closes(i) : \A m \in closes(i) : k <= m
            IN SubSeq(t, 1, i - 1) \o StripBlockComments(SubSeq(t, j + 2, Len(t)))

\* text.replace(/--[^\n\r]*/g, ''): from "--" up to the end of the line
RECURSIVE StripLineComments(_)
StripLineComments(t) ==
    LET starts == {i \in 1..Len(t) : PairAt(t, i, "-", "-")}
    IN IF starts = {} THEN t
       ELSE LET i == CHOOSE k \in starts : \A m \in starts : k <= m
                ends == {k \in (i + 2)..Len(t) : t[k] \in {"\n", "\r"}}
                e == IF ends = {} THEN Len(t) + 1
                     ELSE CHOOSE k \in ends : \A m \in ends : k <= m
            IN SubSeq(t, 1, i - 1) \o StripLineComments(SubSeq(t, e, Len(t)))

\* String.prototype.trim()
Trim(t) ==
    LET solid == {i \in 1..Len(t) : t[i] \notin Whitespace}
    IN IF solid = {} THEN <<>>
       ELSE SubSeq(t, CHOOSE k \in solid : \A m \in solid : k <= m,
                      CHOOSE k \in solid : \A m \in solid : k >= m)

\* the regular expressions' \b between positions i and i + 1 of t
WordBoundary(t, i) ==
    LET left == i >= 1 /\ i <= Len(t) /\ IsWordChar(t[i])
        right == i + 1 >= 1 /\ i + 1 <= Len(t) /\ IsWordChar(t[i + 1])
    IN left # right

\* the characters of w stand at position i of t, compared in lower case
WordAt(t, i, w) ==
    /\ i >= 1 /\ i + Len(w) - 1 <= Len(t)
    /\ LowerText(SubSeq(t, i, i + Len(w) - 1)) = w

\* /\bw\b/i.test(t)
TestWord(t, w) ==
    \E i \in 1..Len(t) :
        WordAt(t, i, w) /\ WordBoundary(t, i - 1) /\ WordBoundary(t, i + Len(w) - 1)

\* /^select\b/i.test(t)
TestStartsSelect(t) ==
    WordAt(t, 1, <<"s", "e", "l", "e", "c", "t">>) /\ WordBoundary(t, 6)

\* the alternatives of the `forbidden` expression
forbidden == {<<"u", "p", "d", "a", "t", "e">>, <<"d", "e", "l", "e", "t", "e">>,
              <<"i", "n", "s", "e", "r", "t">>, <<"d", "r", "o", "p">>,
              <<"a", "l", "t", "e", "r">>, <<"c", "r", "e", "a", "t", "e">>,
              <<"t", "r", "u", "n", "c", "a", "t", "e">>, <<"g", "r", "a", "n", "t">>,
              <<"r", "e", "v", "o", "k", "e">>}

\* (text.match(/;/g) || []).length
semicolons(t) == Cardinality({i \in 1..Len(t) : t[i] = ";"})

\* /;\s*$/.test(t)
TestEndsSemicolon(t) ==
    \E i \in 1..Len(t) : t[i] = ";" /\ \A k \in (i + 1)..Len(t) : t[k] \in Whitespace

\* the `text` of isSafeSelectQuery: comments removed, then trimmed
StrippedText(t) == Trim(StripLineComments(StripBlockComments(t)))

isSafeSelectQuery_AnySemicolonPlace(query) ==
    IF query.kind # "string" THEN FALSE
    ELSE LET text == StrippedText(query.text)
         IN /\ TestStartsSelect(text)
            /\ TestWord(text, <<"f", "r", "o", "m">>)
            /\ ~\E w \in forbidden : TestWord(text, w)
            /\ semicolons(text) <= 1

\* isSafeSelectQuery(query); a query is [kind, text], kind being its typeof
isSafeSelectQuery(query) ==
    IF query.kind # "string" THEN FALSE
    ELSE LET text == StrippedText(query.text)
         IN /\ TestStartsSelect(text)
            /\ TestWord(text, <<"f", "r", "o", "m">>)
            /\ ~\E w \in forbidden : TestWord(text, w)
            /\ semicolons(text) <= 1
            /\ ~(semicolons(text) = 1 /\ ~TestEndsSemicolon(text))

\* ---------------------------------------------------------- /execute-sql
\* query texts tried: up to MaxTokens of these pieces, joined
QueryTokens == {<<"s", "e", "l", "e", "c", "t">>, <<"F", "r", "o", "m">>,
                <<"d", "r", "o", "p">>, <<"x", "_">>, <<" ">>, <<"\n">>, <<";">>,
                <<"/", "*">>, <<"*", "/">>, <<"-", "-">>}

RECURSIVE Join(_)
Join(pieces) == IF pieces = <<>> THEN <<>>
                ELSE Head(pieces) \o Join(Tail(pieces))

QueryTexts == {Join(pieces) : pieces \in UNION {[1..n -> QueryTokens] : n \in 0..MaxTokens}}

\* bodies tried: a string query, a number in its place, no query at all
Queries == {[kind |-> "string", text |-> t] : t \in QueryTexts}
               \cup {[kind |-> "number", text |-> <<>>], NoQuery}

\* !query
Falsy(query) == query.kind = "undefined" \/ (query.kind = "string" /\ query.text = <<>>)

\* dbConfig bodies tried: none, and configs with a blank, loopback-named or
\* remote host, a missing or out-of-range port, a missing user
NoConfig == [given |-> FALSE, host |-> <<>>, port |-> Null, user |-> ""]
DbPort == envTunnel["sit"]
BadPort == 65536
DbConfigs ==
    {NoConfig} \cup
    {[given |-> TRUE, host |-> h, port |-> DbPort, user |-> "root"] :
         h \in {<<>>, <<" ">>, <<" ", "L", "O", "C", "A", "L", "h", "o", "s", "t">>,
                <<"d", "b", "1">>}} \cup
    {[given |-> TRUE, host |-> <<"d", "b", "1">>, port |-> pt, user |-> u] :
         pt \in {Null, DbPort, BadPort}, u \in {"", "root"}}

Loopback == <<"1", "2", "7", ".", "0", ".", "0", ".", "1">>

\* host = (host || '127.0.0.1').toString().trim(), then localhost, '' and
\* '::1' become the loopback literal
NormalizeHost(host) ==
    LET h == Trim(IF host = <<>> THEN Loopback ELSE host)
    IN IF \/ LowerText(h) = <<"l", "o", "c", "a", "l", "h", "o", "s", "t">>
          \/ h = <<>>
          \/ h = <<":", ":", "1">>
       THEN Loopback ELSE h

\* the part of the state no /execute-sql step touches
notSql == <<tunnelProcess, connectedEnv, tunnelLocalPort, req, proc, timers, disc,
            emitted, lastBroadcast, crashed, sseClients, chan, delivered>>

\* app.post('/execute-sql') up to its first await: the body checks, the
\* validator, the config checks, then the TCP probe is started
ExecuteSql(query, dbConfig) ==
    /\ sql.pc = "idle"
    /\ IF Falsy(query) \/ ~dbConfig.given
       THEN sql' = [sql EXCEPT !.pc = "done", !.query = query, !.resp = "BadRequest"]
       ELSE IF ~isSafeSelectQuery(query)
       THEN sql' = [sql EXCEPT !.pc = "done", !.query = query, !.safe = "rejected",
                               !.resp = "QueryRejected"]
       ELSE LET host == NormalizeHost(dbConfig.host)
                checked == [sql EXCEPT !.query = query, !.safe = "accepted",
                                       !.host = host, !.port = dbConfig.port,
                                       !.user = dbConfig.user]
            IN IF host = <<>> \/ dbConfig.port = Null \/ dbConfig.user = ""
               THEN sql' = [checked EXCEPT !.pc = "done", !.resp = "BadRequest"]
               ELSE sql' = [checked EXCEPT !.pc = "probing", !.probe = "pending",
                                           !.probes = @ + 1]
    /\ UNCHANGED notSql

\* net.connect accepts the port: an integer of 0..65535
ValidPort(pt) == pt \in 0..65535

ProbeDone_ConnectsRegardless(outcome) ==
    /\ sql.pc = "probing"
    /\ ~ValidPort(sql.port) => outcome = "error"
    /\ sql' = [sql EXCEPT !.pc = "connecting", !.probe = outcome, !.conns = @ + 1]
    /\ UNCHANGED notSql

\* the probe's promise settles: connected, or rejected by the socket's
\* 'error' or 'timeout' (or by net.connect refusing the port); a rejection
\* answers 502, a connection goes on to mysql.createConnection
ProbeDone(outcome) ==
    /\ sql.pc = "probing"
    /\ ~ValidPort(sql.port) => outcome = "error"
    /\ IF outcome = "connected"
       THEN sql' = [sql EXCEPT !.pc = "connecting", !.probe = outcome, !.conns = @ + 1]
       ELSE sql' = [sql EXCEPT !.pc = "done", !.probe = outcome,
                               !.resp = "TunnelUnreachable"]
    /\ UNCHANGED notSql

\* mysql.createConnection settles: the query is executed, or the outer
\* catch answers 500
CreateConnectionDone(ok) ==
    /\ sql.pc = "connecting"
    /\ IF ok
       THEN sql' = [sql EXCEPT !.pc = "executing"]
       ELSE sql' = [sql EXCEPT !.pc = "done", !.resp = "ServerError"]
    /\ UNCHANGED notSql

\* connection.execute settles; either way connection.end() is awaited next
ExecuteDone(ok) ==
    /\ sql.pc = "executing"
    /\ sql' = [sql EXCEPT !.pc = IF ok THEN "ending" ELSE "endingFailed"]
    /\ UNCHANGED notSql

\* connection.end() settles: rows are returned if the query and the close
\* succeeded, else the inner catch answers 500
EndDone(ok) ==
    /\ sql.pc \in {"ending", "endingFailed"}
    /\ sql' = [sql EXCEPT !.pc = "done",
                          !.resp = IF sql.pc = "ending" /\ ok THEN "Rows"
                                   ELSE "QueryExecutionFailed"]
    /\ UNCHANGED notSql

ProbeOutcomes == {"connected", "error", "timeout"}

\* --------------------------------------------------------------- /events
\* the heartbeat comment line `: ping`
Ping == [status |-> "ping", env |-> NullEnv, pid |-> Null, localPort |-> Null]

\* app.get('/events'): initial status written to the response, which then
\* joins sseClients; the heartbeat interval and the 'close' handler are set
Subscribe(c) ==
    /\ Ready
    /\ chan[c] = "idle"
    /\ \A b \in Clients : b < c => chan[b] # "idle"
    /\ chan' = [chan EXCEPT ![c] = "open"]
    /\ delivered' = [b \in Clients |-> IF b = c THEN <<getCurrentStatus>> ELSE <<>>]
    /\ sseClients' = Append(sseClients, c)
    /\ emitted' = <<>>
    /\ UNCHANGED <<tunnelProcess, connectedEnv, tunnelLocalPort, req, proc, timers,
                   disc, lastBroadcast, crashed, sql>>

\* the setInterval(.., 25000) callback of a response: a ping, errors ignored
Heartbeat(c) ==
    /\ Ready
    /\ chan[c] \in {"open", "broken"}
    /\ delivered' = [b \in Clients |->
           IF b = c /\ ~WriteThrows(c) THEN <<Ping>> ELSE <<>>]
    /\ emitted' = <<>>
    /\ UNCHANGED <<tunnelProcess, connectedEnv, tunnelLocalPort, req, proc, timers,
                   disc, lastBroadcast, crashed, sseClients, chan, sql>>

\* the peer's connection fails: from now on res.write throws; no handler runs
ChannelBreak(c) ==
    /\ ~crashed
    /\ chan[c] = "open"
    /\ chan' = [chan EXCEPT ![c] = "broken"]
    /\ UNCHANGED <<tunnelProcess, connectedEnv, tunnelLocalPort, req, proc, timers,
                   disc, emitted, lastBroadcast, crashed, sseClients, delivered, sql>>

\* req.on('close') of a subscription: clearInterval, sseClients.delete, res.end
StreamClose(c) ==
    /\ Ready
    /\ chan[c] \in {"open", "broken"}
    /\ chan' = [chan EXCEPT ![c] = "closed"]
    /\ sseClients' = SelectSeq(sseClients, LAMBDA b : b # c)
    /\ delivered' = [b \in Clients |-> <<>>]
    /\ emitted' = <<>>
    /\ UNCHANGED <<tunnelProcess, connectedEnv, tunnelLocalPort, req, proc, timers,
                   disc, lastBroadcast, crashed, sql>>

Next ==
    \/ \E a \in Attempts, env \in EnvInputs : Connect(a, env)
    \/ \E a \in Attempts, ok \in BOOLEAN : LoginCallback(a, ok)
    \/ \E a \in Attempts, ok \in BOOLEAN : StatusCallback(a, ok)
    \/ \E a \in Attempts, free \in BOOLEAN, spawned \in BOOLEAN : ProbeResult(a, free, spawned)
    \/ \E p \in Attempts : ErrorEvent(p)
    \/ \E p \in Attempts : StderrData(p)
    \/ \E p \in Attempts : CloseEvent(p)
    \/ TimerFire
    \/ \E d \in Disconnects : Disconnect(d)
    \/ \E d \in Disconnects, ok \in BOOLEAN : LogoutCallback(d, ok)

Spec == Init /\ [][Next]_vars

\* the observers of one controlling client: its connect request, its
\* disconnect request and every callback of theirs, with /events
\* subscriptions opened, broken and closed at any point in between
ObsNext ==
    \/ \E env \in EnvInputs : Connect(1, env)
    \/ \E ok \in BOOLEAN : LoginCallback(1, ok)
    \/ \E ok \in BOOLEAN : StatusCallback(1, ok)
    \/ \E free \in BOOLEAN, spawned \in BOOLEAN : ProbeResult(1, free, spawned)
    \/ ErrorEvent(1)
    \/ StderrData(1)
    \/ CloseEvent(1)
    \/ TimerFire
    \/ Disconnect(1)
    \/ \E ok \in BOOLEAN : LogoutCallback(1, ok)
    \/ \E c \in Clients : Subscribe(c)
    \/ \E c \in Clients : Heartbeat(c)
    \/ \E c \in Clients : ChannelBreak(c)
    \/ \E c \in Clients : StreamClose(c)

ObsSpec == Init /\ [][ObsNext]_vars

\* one /execute-sql request, from its arrival to its response
SqlNext ==
    \/ /\ sql.pc = "idle"
       /\ \E query \in Queries, dbConfig \in DbConfigs : ExecuteSql(query, dbConfig)
    \/ \E outcome \in ProbeOutcomes : ProbeDone(outcome)
    \/ \E ok \in BOOLEAN : CreateConnectionDone(ok)
    \/ \E ok \in BOOLEAN : ExecuteDone(ok)
    \/ \E ok \in BOOLEAN : EndDone(ok)

SqlSpec == Init /\ [][SqlNext]_vars

\* exec callbacks, probe answers, next-tick events and timers do arrive;
\* requests, stderr output and the exit of a subprocess need not
Fairness ==
    /\ \A a \in Attempts :
          /\ WF_vars(\E ok \in BOOLEAN : LoginCallback(a, ok))
          /\ WF_vars(\E ok \in BOOLEAN : StatusCallback(a, ok))
          /\ WF_vars(\E free \in BOOLEAN, spawned \in BOOLEAN : ProbeResult(a, free, spawned))
          /\ WF_vars(ErrorEvent(a))
    /\ WF_vars(TimerFire)
    /\ \A d \in Disconnects : WF_vars(\E ok \in BOOLEAN : LogoutCallback(d, ok))

FairSpec == Spec /\ Fairness

TypeOK ==
    /\ tunnelProcess \in {Null} \cup Attempts
    /\ connectedEnv \in {NullEnv} \cup Envs
    /\ tunnelLocalPort \in {Null} \cup {RangePort(e, i) : e \in Envs, i \in 0..(ScanLen - 1)}
    /\ \A a \in Attempts : proc[a] \in {"none", "failed", "errored", "alive", "killed", "closed"}
    /\ crashed \in BOOLEAN

\* the attempt's confirmation timer is set and has not fired
TimerPending(a) == \E i \in 1..Len(timers) : timers[i] = a

Disconnected == [status |-> "disconnected", env |-> NullEnv, pid |-> Null, localPort |-> Null]

\* ------------------------------------------------------------------ C1
\* C1: in every reachable state connectedEnv and tunnelLocalPort are both
\* null or both non-null.
C1_EnvAndPortTogether == (connectedEnv = NullEnv) <=> (tunnelLocalPort = Null)

\* ------------------------------------------------------------------ C2
\* C2: at most one spawned tunnel subprocess is alive (spawned, not killed,
\* not exited) at any time.
C2_AtMostOneLiveSubprocess == Cardinality({p \in Attempts : proc[p] = "alive"}) <= 1

\* ------------------------------------------------------------------ C3
\* C3: every connect attempt receives exactly one response: never two, and,
\* the callbacks and timers being delivered, eventually one.
C3_ExactlyOneResponse ==
    \A a \in Attempts :
        /\ [](req[a].nresp <= 1)
        /\ [](req[a].pc # "idle" => <>(req[a].nresp = 1))

\* ------------------------------------------------------------------ C4
\* C4: a failure signal of the launched subprocess (stderr data, 'error',
\* 'close') that arrives while the confirmation timer is pending makes the
\* attempt fail: the stderr handler answers with a failure (unless it throws),
\* and the timer of an attempt whose subprocess has already emitted 'error'
\* or 'close' leaves a failure response, never the success response.
C4_FailureSignalFailsAttempt ==
    [][\A a \in Attempts :
         /\ (TimerPending(a) /\ StderrData(a))
                => (crashed' \/ req'[a].resp \in LaunchFailures)
         /\ (TimerFire /\ Head(timers) = a /\ proc[a] \in {"errored", "closed"})
                => req'[a].resp \in LaunchFailures]_vars

\* ------------------------------------------------------------------ C5
\* the step sends attempt a its success response
SendsSuccess(a) == req[a].resp # "Success" /\ req'[a].resp = "Success"

\* C5: when a connect attempt is sent its success response, getCurrentStatus()
\* reports connected, the requested environment and the returned tunnelPort.
C5_SuccessMeansConnected ==
    [][\A a \in Attempts :
         SendsSuccess(a) =>
            /\ getCurrentStatus'.status = "connected"
            /\ getCurrentStatus'.env = req[a].env
            /\ getCurrentStatus'.localPort = req'[a].chosenPort]_vars

C7_DisconnectIdempotent ==
    [][\A d \in Disconnects :
         /\ (tunnelProcess = Null /\ Disconnect(d))
                => (proc' = proc /\ slot' = <<Null, NullEnv, Null>>)
         /\ (\E ok \in BOOLEAN : LogoutCallback(d, ok))
                => disc'[d].resp = "Success"]_vars

\* ------------------------------------------------------------------ C8
\* C8: a connect request answered InvalidEnvironment changes no session
\* state: nothing is killed, process handle, env and localPort are kept,
\* and no snapshot is broadcast.
C8_InvalidEnvironmentNoChange ==
    [][\A a \in Attempts :
         (req[a].pc = "idle" /\ req'[a].resp = "InvalidEnvironment")
            => (slot' = slot /\ proc' = proc /\ emitted' = <<>>)]_vars

\* ------------------------------------------------------------------ C9
\* C9: when the last port of the range is reported occupied as all before
\* it were, the attempt is answered NoPortAvailable, no subprocess is
\* spawned and no localPort is published.
C9_NoPortAvailable ==
    [][\A a \in Attempts :
         (req[a].idx = ScanLen - 1 /\ \E sp \in BOOLEAN : ProbeResult(a, FALSE, sp))
            => /\ req'[a].resp = "NoPortAvailable"
               /\ proc'[a] = "none"
               /\ tunnelLocalPort' = tunnelLocalPort]_vars

\* ----------------------------------------------------------------- C10
\* C10: when the logout callback of a /disconnect fires, the request is
\* answered Success, once, whether logout failed or not, and the session
\* state (process handle, env, localPort, subprocesses) is left as it was.
C10_LogoutBestEffort ==
    /\ [][\A d \in Disconnects :
           (\E ok \in BOOLEAN : LogoutCallback(d, ok))
              => (disc'[d].resp = "Success" /\ slot' = slot /\ proc' = proc)]_vars
    /\ [](\A d \in Disconnects :
           /\ disc[d].nresp <= 1
           /\ disc[d].nresp = 1 <=> disc[d].pc = "done"
           /\ disc[d].resp \in {"none", "Success"})

\* a /disconnect that killed the held subprocess of attempt 1 and whose
\* logout failed has been answered Success
C10_Witness ==
    /\ proc[1] = "killed"
    /\ req[1].nresp = 0
    /\ \A a \in Attempts : a # 1 => req[a].pc = "idle"
    /\ disc[1].pc = "done"
    /\ disc[1].logoutError
    /\ disc[1].resp = "Success"

\* ----------------------------------------------------------------- C13
\* C13: whenever a handler has finished, the snapshot broadcast last equals
\* getCurrentStatus(): no change of process handle, env or localPort is left
\* unannounced (before the first broadcast the status is the initial one).
C13_EveryTransitionBroadcast ==
    IF lastBroadcast = NoSnapshot
    THEN getCurrentStatus = Disconnected
    ELSE lastBroadcast = getCurrentStatus

\* ----------------------------------------------------------------- C15
\* C15: no subprocess event handler throws: the stderr handler never calls
\* kill on an empty slot, so the control process is never brought down.
C15_NoHandlerThrows == ~crashed

\* ----------------------------------------------------------------- C17
\* the step runs one of the three subprocess handlers of p
SubprocessEvent(p) == StderrData(p) \/ ErrorEvent(p) \/ CloseEvent(p)

TornDown == slot' = <<Null, NullEnv, Null>> /\ emitted' = <<Disconnected>>

\* C17 as stated: each of the three handlers, whenever it fires and runs to
\* its end, also once the attempt is answered, clears the slot and
\* broadcasts the disconnected snapshot.
C17_EveryHandlerTearsDown ==
    [][\A p \in Attempts : (SubprocessEvent(p) /\ ~crashed') => TornDown]_vars

\* C17 as amended: the 'error' and 'close' handlers always clear the slot and
\* broadcast the disconnected snapshot; the stderr handler does so while the
\* attempt is unanswered and a process is held, never changes the slot
\* otherwise, and once the response is sent broadcasts the current snapshot.
C17_HandlersTearDownUntilAnswered ==
    [][\A p \in Attempts :
         /\ (ErrorEvent(p) \/ CloseEvent(p)) => TornDown
         /\ (StderrData(p) /\ ~headersSent(p) /\ tunnelProcess # Null) => TornDown
         /\ (StderrData(p) /\ ~(~headersSent(p) /\ tunnelProcess # Null))
                => (slot' = slot /\ proc' = proc)
         /\ (StderrData(p) /\ headersSent(p)) => emitted' = <<getCurrentStatus>>]_vars

\* stderr output of the subprocess of attempt 1 after attempt 1 was answered
\* Success: attempt 2 then tore the tunnel down and passed login, so only
\* the stderr handler can have broadcast last
C17_Witness ==
    /\ req[1].resp = "Success"
    /\ proc[1] = "killed"
    /\ req[2].pc = "status"
    /\ \A d \in Disconnects : disc[d].pc = "idle"
    /\ slot = <<Null, NullEnv, Null>>
    /\ emitted = <<Disconnected>>

\* ----------------------------------------------------------------- C18
\* the step ends the port scan of attempt a and launches
EndsScan(a) == req[a].pc = "scan" /\ req'[a].pc = "launched"

\* C18: the port chosen is the first free one of the range: it is the port
\* of the probe just answered, that probe reported it free, and (idx moving
\* on only after an occupied answer) no port after it was probed.
C18_FirstFreePortChosen ==
    [][\A a \in Attempts :
         EndsScan(a) =>
            /\ \E sp \in BOOLEAN : ProbeResult(a, TRUE, sp)
            /\ req'[a].chosenPort = RangePort(req[a].env, req[a].idx)
            /\ tunnelLocalPort' = req'[a].chosenPort]_vars

\* ----------------------------------------------------------------- C19
\* C19: a failed login or status query answers AuthenticationFailed /
\* StatusQueryFailed; the attempt has probed and published no port and has
\* spawned nothing, and the session is Disconnected when the answer is sent.
C19_AuthFailureAbortsClean ==
    [][\A a \in Attempts :
         /\ LoginCallback(a, FALSE) => req'[a].resp = "AuthenticationFailed"
         /\ StatusCallback(a, FALSE) => req'[a].resp = "StatusQueryFailed"
         /\ (LoginCallback(a, FALSE) \/ StatusCallback(a, FALSE))
                => /\ req'[a].pc = "done"
                   /\ req'[a].chosenPort = Null
                   /\ proc'[a] = "none"
                   /\ ~TimerPending(a)'
                   /\ slot' = <<Null, NullEnv, Null>>]_vars

\* ----------------------------------------------------------------- C20
\* the step runs a subprocess handler or the confirmation timer of attempt a
AttemptEvent(a) == SubprocessEvent(a) \/ (TimerFire /\ Head(timers) = a)

\* C20: while the subprocess of another, later launched attempt holds the
\* slot, the handlers and the timer of a superseded attempt neither kill
\* that subprocess nor change process handle, env or localPort.
C20_SupersededAttemptIsInert ==
    [][\A a \in Attempts :
         (tunnelProcess \notin {Null, a} /\ AttemptEvent(a))
            => (slot' = slot /\ proc'[tunnelProcess] = proc[tunnelProcess])]_vars

\* ----------------------------------------------------------------- C11
\* the step runs broadcastStatus()
Broadcasts == emitted' # <<>>

\* C11: in a broadcast, a write that throws for one observer neither ends
\* the loop nor reaches the caller: every other observer of the set whose
\* write does not throw is written the snapshot of that broadcast.
C11_BroadcastIsolation ==
    [][Broadcasts =>
         /\ \A c \in Clients :
               (Subscribed(c) /\ ~WriteThrows(c)) => delivered'[c] = emitted'
         /\ crashed' = crashed]_vars

\* a broadcast has just reached an open observer that comes after a broken
\* one in the set
C11_Witness ==
    \E b, c \in Clients :
        /\ Subscribed(b) /\ Subscribed(c)
        /\ Position(b) < Position(c)
        /\ chan[b] = "broken" /\ chan[c] = "open"
        /\ emitted # <<>>
        /\ delivered[c] = emitted
        /\ delivered[b] = <<>>

\* ----------------------------------------------------------------- C12
\* C12 as stated: an observer is in the set from its subscription until its
\* stream closes or a write to it fails: a broadcast removes the observers whose
\* write failed and only those, and an observer whose stream closed is out
\* of the set and is not written to again.
C12_ObserverSetMembership ==
    [][\A c \in Clients :
         /\ Subscribe(c) => Subscribed(c)'
         /\ (Broadcasts /\ Subscribed(c)) => (Subscribed(c)' <=> ~WriteThrows(c))
         /\ StreamClose(c) => ~Subscribed(c)'
         /\ chan[c] = "closed" => (~Subscribed(c)' /\ delivered'[c] = <<>>)]_vars

\* C12 as amended: an observer is in the set exactly from its subscription
\* until its stream closes; a broadcast removes no observer, the one whose
\* write failed included; an observer whose stream closed is out of the set
\* and is not written to again.
C12_MemberUntilStreamCloses ==
    /\ [](\A c \in Clients : Subscribed(c) <=> chan[c] \in {"open", "broken"})
    /\ [][\A c \in Clients :
           /\ Subscribe(c) => Subscribed(c)'
           /\ Broadcasts => sseClients' = sseClients
           /\ StreamClose(c) => ~Subscribed(c)'
           /\ chan[c] = "closed" => (~Subscribed(c)' /\ delivered'[c] = <<>>)]_vars

\* a broadcast has just run while a broken observer was in the set, after
\* another observer's stream had closed: the broken one is still a member
C12_Witness ==
    \E b, c \in Clients :
        /\ chan[b] = "closed" /\ ~Subscribed(b)
        /\ chan[c] = "broken" /\ Subscribed(c)
        /\ emitted # <<>>
        /\ delivered[c] = <<>>

\* ----------------------------------------------------------------- C14
\* the dbConfig fields the handler read are all present
ConfigComplete == sql.host # <<>> /\ sql.port # Null /\ sql.user # ""

\* C14: in /execute-sql a database connection is opened only after the
\* query passed the validator, the dbConfig passed the completeness check
\* and the TCP probe succeeded; a query the validator rejected is answered
\* QueryRejected with no probe and no connection, and a failed or timed-out
\* probe is answered TunnelUnreachable with no connection attempt.
C14_ConnectionOnlyAfterChecks ==
    /\ sql.conns > 0 =>
           sql.safe = "accepted" /\ ConfigComplete /\ sql.probe = "connected"
    /\ sql.probes > 0 => sql.safe = "accepted" /\ ConfigComplete
    /\ sql.safe = "rejected" =>
           sql.resp = "QueryRejected" /\ sql.probes = 0 /\ sql.conns = 0
    /\ sql.resp = "QueryRejected" => sql.probes = 0 /\ sql.conns = 0
    /\ sql.probe \in {"error", "timeout"} =>
           sql.resp = "TunnelUnreachable" /\ sql.conns = 0
    /\ sql.resp = "TunnelUnreachable" => sql.conns = 0

\* a connection was opened for a request whose host was normalized to the
\* loopback literal, after a probe that connected
C14_Witness ==
    /\ sql.conns = 1
    /\ sql.probe = "connected"
    /\ sql.host = Loopback
    /\ sql.pc = "connecting"

\* ----------------------------------------------------------------- C16
\* the keyword w stands in t at position i as a whole word, in any case
KeywordAt(t, i, w) ==
    /\ i >= 1 /\ i + Len(w) - 1 <= Len(t)
    /\ \A k \in 1..Len(w) : LowerChar(t[i + k - 1]) = w[k]
    /\ i = 1 \/ ~IsWordChar(t[i - 1])
    /\ i + Len(w) > Len(t) \/ ~IsWordChar(t[i + Len(w)])

HasKeyword(t, w) == \E i \in 1..Len(t) : KeywordAt(t, i, w)

====
